---- MODULE Spec2Model ----
(***************************************************************************)
(* Model of helper_functions.py: the calendar cleaning functions           *)
(* (clean_calendar, clean_price), the date range report                    *)
(* (check_date_range) and the amenities encoder                            *)
(* (one_hot_encode_amenities).                                             *)
(*                                                                         *)
(* A DataFrame is an object on the heap: a sequence of rows.  A cell is a  *)
(* tagged Python value: a str (a sequence of one-character strings), an    *)
(* int, the missing value NaN, or a Timestamp (kept as the number          *)
(* year*10000 + month*100 + day, which orders as the dates do).            *)
(***************************************************************************)
EXTENDS Integers, Sequences, FiniteSets

VARIABLES
    heap,          \* the DataFrame objects: heap[ref] is a sequence of rows
    arg,           \* the reference the caller holds and passes as df
    ret,           \* the reference the last call returned (0: nothing yet)
    calls,         \* number of clean_calendar / clean_price calls made
    status,        \* "ok", or "raised" once a call has raised
    input0,        \* the caller's table as it was before the first call
    first,         \* the table the first call returned
    report,        \* what check_date_range printed
    amenities,     \* the 'amenities' column given to one_hot_encode_amenities
    amenities_df   \* the DataFrame one_hot_encode_amenities returned

vars == <<heap, arg, ret, calls, status, input0, first, report, amenities, amenities_df>>

(***************************************************************************)
(* Bounds                                                                  *)
(***************************************************************************)
MaxRows == 2        \* rows of a calendar table
MaxFlagRows == 2    \* rows of a table of availability flags
MaxDateRows == 4    \* rows of a table given to the date range report
MaxPriceRows == 1   \* rows of a price column
MaxPriceLen == 3    \* characters of an enumerated price string
MaxAmenRows == 2    \* rows of an amenities column
MaxBody == 3        \* characters between the braces of an amenities cell
MaxCalls == 2       \* calls of clean_calendar on the same table

(***************************************************************************)
(* Python values                                                           *)
(***************************************************************************)
StrV(s) == [k |-> "str", s |-> s, n |-> 0]
IntV(n) == [k |-> "int", s |-> <<>>, n |-> n]
NaN == [k |-> "nan", s |-> <<>>, n |-> 0]
Timestamp(n) == [k |-> "date", s |-> <<>>, n |-> n]

DigitChars == <<"0", "1", "2", "3", "4", "5", "6", "7", "8", "9">>
Digits == {DigitChars[i] : i \in 1..Len(DigitChars)}
DigitVal(c) == CHOOSE i \in 0..9 : DigitChars[i + 1] = c

\* the code point of a character, which orders Python strings
Ord(c) ==
    CASE c = " " -> 32
      [] c = "\"" -> 34
      [] c = "$" -> 36
      [] c = "+" -> 43
      [] c = "," -> 44
      [] c = "-" -> 45
      [] c = "." -> 46
      [] c = "/" -> 47
      [] c \in Digits -> 48 + DigitVal(c)
      [] c = "T" -> 84
      [] c = "a" -> 97
      [] c = "b" -> 98
      [] c = "f" -> 102
      [] c = "t" -> 116
      [] c = "x" -> 120
      [] c = "{" -> 123
      [] c = "}" -> 125

StringsOver(A, max) == UNION {[1..n -> A] : n \in 0..max}
TablesOver(R, max) == UNION {[1..n -> R] : n \in 0..max}

(***************************************************************************)
(* str methods                                                             *)
(***************************************************************************)
RECURSIVE LStrip(_, _)
LStrip(s, chars) ==
    IF s # <<>> /\ Head(s) \in chars THEN LStrip(Tail(s), chars) ELSE s

RECURSIVE RStrip(_, _)
RStrip(s, chars) ==
    IF s # <<>> /\ s[Len(s)] \in chars
    THEN RStrip(SubSeq(s, 1, Len(s) - 1), chars)
    ELSE s

Strip(s, chars) == RStrip(LStrip(s, chars), chars)

\* s.replace(c, '')
RECURSIVE Remove(_, _)
Remove(s, c) ==
    IF s = <<>> THEN <<>>
    ELSE IF Head(s) = c THEN Remove(Tail(s), c)
    ELSE <<Head(s)>> \o Remove(Tail(s), c)

\* s.split(sep): always at least one piece, '' for an empty s
RECURSIVE Split(_, _)
Split(s, sep) ==
    IF \A i \in 1..Len(s) : s[i] # sep THEN <<s>>
    ELSE LET p == CHOOSE i \in 1..Len(s) :
                      s[i] = sep /\ \A j \in 1..(i - 1) : s[j] # sep
         IN <<SubSeq(s, 1, p - 1)>> \o Split(SubSeq(s, p + 1, Len(s)), sep)

IsDigits(s) == s # <<>> /\ \A i \in 1..Len(s) : s[i] \in Digits

RECURSIVE DigitsValue(_)
DigitsValue(s) ==
    IF s = <<>> THEN 0
    ELSE 10 * DigitsValue(SubSeq(s, 1, Len(s) - 1)) + DigitVal(s[Len(s)])

\* int(s), as astype('int') applies it to the str cells of an object column:
\* an optional sign and at least one digit
IsIntLiteral(s) ==
    LET body == IF s # <<>> /\ Head(s) \in {"+", "-"} THEN Tail(s) ELSE s
    IN IsDigits(body)

PyInt(s) ==
    IF Head(s) = "-" THEN 0 - DigitsValue(Tail(s))
    ELSE IF Head(s) = "+" THEN DigitsValue(Tail(s))
    ELSE DigitsValue(s)

(***************************************************************************)
(* pd.to_datetime(..., format='%Y-%m-%d') and Timestamp.strftime           *)
(***************************************************************************)
DaysInMonth(y, m) ==
    IF m = 2
    THEN (IF (y % 4 = 0 /\ y % 100 # 0) \/ y % 400 = 0 THEN 29 ELSE 28)
    ELSE IF m \in {4, 6, 9, 11} THEN 30 ELSE 31

\* %Y is four digits; %m and %d are one or two digits
IsDateString(s) ==
    LET f == Split(s, "-")
    IN /\ Len(f) = 3
       /\ IsDigits(f[1]) /\ Len(f[1]) = 4
       /\ IsDigits(f[2]) /\ Len(f[2]) <= 2
       /\ IsDigits(f[3]) /\ Len(f[3]) <= 2
       /\ DigitsValue(f[2]) \in 1..12
       /\ DigitsValue(f[3]) \in 1..DaysInMonth(DigitsValue(f[1]), DigitsValue(f[2]))

ParseDate(s) ==
    LET f == Split(s, "-")
    IN Timestamp(DigitsValue(f[1]) * 10000 + DigitsValue(f[2]) * 100 + DigitsValue(f[3]))

\* a cell of the date column converts unless it is a str the format rejects
DateConverts(v) == v.k = "date" \/ (v.k = "str" /\ IsDateString(v.s))

to_datetime(v) == IF v.k = "str" THEN ParseDate(v.s) ELSE v

Pad(n, width) ==
    [i \in 1..width |->
        LET p == width - i
            pow == IF p = 0 THEN 1 ELSE IF p = 1 THEN 10 ELSE IF p = 2 THEN 100 ELSE 1000
        IN DigitChars[((n \div pow) % 10) + 1]]

\* Timestamp.strftime('%Y-%m-%d')
strftime(d) ==
    Pad(d.n \div 10000, 4) \o <<"-">> \o Pad((d.n \div 100) % 100, 2)
        \o <<"-">> \o Pad(d.n % 100, 2)

(***************************************************************************)
(* clean_price                                                             *)
(***************************************************************************)
\* df.price.fillna(0)
fillna(v) == IF v.k = "nan" THEN IntV(0) ELSE v

\* strip_price without .replace('.', ''): the price read as a decimal literal
strip_price_keeps_dot(v) ==
    IF v.k = "str" THEN StrV(Remove(LStrip(v.s, {"$"}), ",")) ELSE v

\* the lambda strip_price
strip_price(v) ==
    IF v.k = "str"
    THEN StrV(Remove(Remove(LStrip(v.s, {"$"}), ","), "."))
    ELSE v

\* astype('int') on one cell
IntConverts(v) == v.k = "int" \/ (v.k = "str" /\ IsIntLiteral(v.s))
astype_int(v) == IF v.k = "str" THEN IntV(PyInt(v.s)) ELSE v

\* clean_price(df): the table the call leaves in df, and whether it raised.
\* The two assignments to df.price before astype stay when astype raises.
clean_price(t) ==
    LET t1 == [i \in 1..Len(t) |-> [t[i] EXCEPT !.price = fillna(@)]]
        t2 == [i \in 1..Len(t1) |-> [t1[i] EXCEPT !.price = strip_price(@)]]
    IN IF \A i \in 1..Len(t2) : IntConverts(t2[i].price)
       THEN [ok |-> TRUE, table |-> [i \in 1..Len(t2) |-> [t2[i] EXCEPT !.price = astype_int(@)]]]
       ELSE [ok |-> FALSE, table |-> t2]

(***************************************************************************)
(* clean_calendar                                                          *)
(***************************************************************************)
\* map_available comparing without regard to case
map_available_any_case(v) ==
    IF v = StrV(<<"t">>) \/ v = StrV(<<"T">>) THEN IntV(1) ELSE IntV(0)

\* the lambda map_available
map_available(v) == IF v = StrV(<<"t">>) THEN IntV(1) ELSE IntV(0)

\* df.drop_duplicates() without inplace=True: df keeps every row
drop_duplicates_not_inplace(t) == t

\* df.drop_duplicates(subset=['listing_id', 'date'], inplace=True)
RECURSIVE drop_duplicates_by_key(_)
drop_duplicates_by_key(t) ==
    IF t = <<>> THEN <<>>
    ELSE LET front == SubSeq(t, 1, Len(t) - 1)
             last == t[Len(t)]
         IN IF \E i \in 1..Len(front) :
                   front[i].listing_id = last.listing_id /\ front[i].date = last.date
            THEN drop_duplicates_by_key(front)
            ELSE Append(drop_duplicates_by_key(front), last)

\* df.drop_duplicates(inplace=True): the first of equal rows is kept
RECURSIVE drop_duplicates(_)
drop_duplicates(t) ==
    IF t = <<>> THEN <<>>
    ELSE LET front == SubSeq(t, 1, Len(t) - 1)
             last == t[Len(t)]
         IN IF \E i \in 1..Len(front) : front[i] = last
            THEN drop_duplicates(front)
            ELSE Append(drop_duplicates(front), last)

\* clean_calendar(df): the table the call leaves in df, and whether it raised.
\* to_datetime raises before anything is assigned.
clean_calendar(t) ==
    IF \E i \in 1..Len(t) : ~DateConverts(t[i].date)
    THEN [ok |-> FALSE, table |-> t]
    ELSE LET t1 == [i \in 1..Len(t) |-> [t[i] EXCEPT !.date = to_datetime(@)]]
             t2 == drop_duplicates(t1)
             t3 == [i \in 1..Len(t2) |-> [t2[i] EXCEPT !.available = map_available(@)]]
         IN clean_price(t3)

(***************************************************************************)
(* check_date_range                                                        *)
(***************************************************************************)
NoReport == [kind |-> "none", begin |-> <<>>, end |-> <<>>, starts |-> {}, ends |-> {}]

DatesOf(t, l) == {t[i].date : i \in {j \in 1..Len(t) : t[j].listing_id = l}}
Listings(t) == {t[i].listing_id : i \in 1..Len(t)}

\* df.groupby('listing_id').min().date and .max().date, as sets
starting_dates(t) ==
    {CHOOSE d \in DatesOf(t, l) : \A e \in DatesOf(t, l) : d.n <= e.n : l \in Listings(t)}
finishing_dates(t) ==
    {CHOOSE d \in DatesOf(t, l) : \A e \in DatesOf(t, l) : d.n >= e.n : l \in Listings(t)}

\* the condition with or in place of and
CommonRangeEither(starts, ends) == Cardinality(starts) = 1 \/ Cardinality(ends) = 1

\* the condition of the if
CommonRange(starts, ends) == Cardinality(starts) = 1 /\ Cardinality(ends) = 1

\* what check_date_range(df) prints
check_date_range(t) ==
    LET distinct_starting_dates == starting_dates(t)
        distinct_finishing_dates == finishing_dates(t)
    IN IF CommonRange(distinct_starting_dates, distinct_finishing_dates)
       THEN [kind |-> "common",
             begin |-> strftime(CHOOSE d \in distinct_starting_dates : TRUE),
             end |-> strftime(CHOOSE d \in distinct_finishing_dates : TRUE),
             starts |-> {}, ends |-> {}]
       ELSE [kind |-> "divergent", begin |-> <<>>, end |-> <<>>,
             starts |-> distinct_starting_dates,
             ends |-> distinct_finishing_dates]

(***************************************************************************)
(* one_hot_encode_amenities                                                *)
(***************************************************************************)
NoFrame == [made |-> FALSE, columns |-> <<>>, data |-> <<>>]

\* a < b for Python strings
RECURSIVE StrLess(_, _)
StrLess(a, b) ==
    IF b = <<>> THEN FALSE
    ELSE IF a = <<>> THEN TRUE
    ELSE IF Head(a) # Head(b) THEN Ord(Head(a)) < Ord(Head(b))
    ELSE StrLess(Tail(a), Tail(b))

\* sorted(S)
RECURSIVE Sorted(_)
Sorted(S) ==
    IF S = {} THEN <<>>
    ELSE LET m == CHOOSE x \in S : \A y \in S \ {x} : StrLess(x, y)
         IN <<m>> \o Sorted(S \ {m})

\* the lambda applied to each cell of df['amenities']
parse_amenities(cell) == Split(Remove(Strip(cell, {"{", "}"}), "\""), ",")

TokensOf(cell) == {parse_amenities(cell)[j] : j \in 1..Len(parse_amenities(cell))}

\* MultiLabelBinarizer.classes_: the sorted distinct tokens of all rows
classes_(col) == Sorted(UNION {TokensOf(col[i]) : i \in 1..Len(col)})

\* MultiLabelBinarizer.fit_transform: one row per cell, one column per class
fit_transform(col) ==
    [i \in 1..Len(col) |->
        [j \in 1..Len(classes_(col)) |->
            IF classes_(col)[j] \in TokensOf(col[i]) THEN 1 ELSE 0]]

\* seq[1:]
DropFirst(seq) == IF seq = <<>> THEN <<>> ELSE Tail(seq)

\* one_hot_encode_amenities(df): pd.DataFrame(...).iloc[:, 1:]
one_hot_encode_amenities(col) ==
    [made |-> TRUE,
     columns |-> DropFirst(classes_(col)),
     data |-> [i \in 1..Len(col) |-> DropFirst(fit_transform(col)[i])]]

(***************************************************************************)
(* Inputs                                                                  *)
(***************************************************************************)
Jan01 == <<"2", "0", "2", "0", "-", "0", "1", "-", "0", "1">>
Jan1 == <<"2", "0", "2", "0", "-", "1", "-", "1">>
Jan02 == <<"2", "0", "2", "0", "-", "0", "1", "-", "0", "2">>
Jan07 == <<"2", "0", "2", "0", "-", "0", "1", "-", "0", "7">>
Feb30 == <<"2", "0", "2", "0", "-", "0", "2", "-", "3", "0">>

Row(l, d, a, p) == [listing_id |-> l, date |-> d, available |-> a, price |-> p]

\* calendar rows: two listings, dates written with and without padding
CalendarRows ==
    {Row(l, StrV(d), StrV(a), p) :
        l \in {1, 2}, d \in {Jan01, Jan1, Jan02},
        a \in {<<"t">>, <<"f">>, <<"x">>}, p \in {StrV(<<"$", "5">>), NaN}}

\* rows that differ in the availability flag
FlagValues ==
    {StrV(<<"t">>), StrV(<<"f">>), StrV(<<"T">>), StrV(<<>>), StrV(<<"t", "t">>),
     NaN, IntV(1)}
FlagRows == {Row(l, StrV(Jan01), a, StrV(<<"$", "5">>)) : l \in {1, 2}, a \in FlagValues}

\* rows that differ in listing and date, one of them with a date that does not exist
DateRows ==
    {Row(l, StrV(d), StrV(<<"t">>), StrV(<<"$", "5">>)) :
        l \in {1, 2}, d \in {Jan01, Jan02, Jan07, Feb30}}

ExamplePrices ==
    {<<"$", "1", ",", "2", "0", "0", ".", "5", "0">>, <<"$", "5">>, <<"0", "0", "7">>,
     <<"-", "5">>, <<"$", "-", "5">>, <<"$", "$", "5">>, <<"5", "x">>, <<"+", "5">>}
PriceValues ==
    {StrV(s) : s \in StringsOver({"$", ",", ".", "1", "5"}, MaxPriceLen) \cup ExamplePrices}
        \cup {NaN, IntV(0), IntV(7), IntV(0 - 5)}
PriceRows == {Row(1, StrV(Jan01), StrV(<<"t">>), p) : p \in PriceValues}

ExampleCells ==
    {<<"{", "\"", "a", "\"", ",", "b", "}">>,
     <<"{", "\"", "a", "\"", ",", "\"", "b", "\"", "}">>,
     <<"{", "\"", "a", " ", "b", "\"", "}">>}
AmenityCells ==
    {<<"{">> \o body \o <<"}">> : body \in StringsOver({",", "a", "b"}, MaxBody)}
        \cup ExampleCells

(***************************************************************************)
(* The state machine                                                       *)
(***************************************************************************)
InitWith(t, col) ==
    /\ heap = <<t>>
    /\ arg = 1
    /\ ret = 0
    /\ calls = 0
    /\ status = "ok"
    /\ input0 = t
    /\ first = <<>>
    /\ report = NoReport
    /\ amenities = col
    /\ amenities_df = NoFrame

Init == \E t \in TablesOver(CalendarRows, MaxRows) : InitWith(t, <<>>)
InitFlags == \E t \in TablesOver(FlagRows, MaxFlagRows) : InitWith(t, <<>>)
InitDates == \E t \in TablesOver(DateRows, MaxDateRows) : InitWith(t, <<>>)
InitPrice == \E t \in TablesOver(PriceRows, MaxPriceRows) : InitWith(t, <<>>)
InitAmen == \E col \in TablesOver(AmenityCells, MaxAmenRows) : InitWith(<<>>, col)

\* the reference passed as df: the caller's table, then what the last call returned
Df == IF ret = 0 THEN arg ELSE ret

\* the call working on a copy of df and returning the copy
Copied(result) ==
    /\ heap' = IF result.ok THEN Append(heap, result.table) ELSE heap
    /\ ret' = IF result.ok THEN Len(heap) + 1 ELSE ret

\* the call's effect on the heap: every assignment is made to the object df
\* refers to, and that object is returned
InPlace(result) ==
    /\ heap' = [heap EXCEPT ![Df] = result.table]
    /\ ret' = IF result.ok THEN Df ELSE ret

Returned(result) ==
    /\ InPlace(result)
    /\ status' = IF result.ok THEN "ok" ELSE "raised"
    /\ calls' = calls + 1
    /\ first' = IF calls = 0 /\ result.ok THEN result.table ELSE first

\* df = clean_calendar(df)
CleanCalendar ==
    /\ status = "ok"
    /\ calls < MaxCalls
    /\ Returned(clean_calendar(heap[Df]))
    /\ UNCHANGED <<arg, input0, report, amenities, amenities_df>>

\* df = clean_price(df), on a raw price column
CleanPrice ==
    /\ status = "ok"
    /\ calls = 0
    /\ Returned(clean_price(heap[Df]))
    /\ UNCHANGED <<arg, input0, report, amenities, amenities_df>>

\* check_date_range(df), on a cleaned calendar
CheckDateRange ==
    /\ status = "ok"
    /\ calls >= 1
    /\ report = NoReport
    /\ report' = check_date_range(heap[ret])
    /\ UNCHANGED <<heap, arg, ret, calls, status, input0, first, amenities, amenities_df>>

\* amenities_df = one_hot_encode_amenities(df)
OneHotEncodeAmenities ==
    /\ ~amenities_df.made
    /\ amenities_df' = one_hot_encode_amenities(amenities)
    /\ UNCHANGED <<heap, arg, ret, calls, status, input0, first, report, amenities>>

Next == CleanCalendar \/ CheckDateRange
NextPrice == CleanPrice
NextAmen == OneHotEncodeAmenities

Spec == Init /\ [][Next]_vars
SpecFlags == InitFlags /\ [][Next]_vars
SpecDates == InitDates /\ [][Next]_vars
SpecPrice == InitPrice /\ [][NextPrice]_vars
SpecAmen == InitAmen /\ [][NextAmen]_vars

(***************************************************************************)
(* Properties                                                              *)
(***************************************************************************)
Returned1 == calls = 1 /\ status = "ok"
In(i) == input0[i]
Out == heap[ret]

\* the value of the digit characters of s, read left to right
RECURSIVE DigitConcat(_, _)
DigitConcat(s, acc) ==
    IF s = <<>> THEN acc
    ELSE DigitConcat(Tail(s),
            IF Head(s) \in Digits THEN 10 * acc + DigitVal(Head(s)) ELSE acc)

\* an optional leading '$', then digits, ',' and at most one '.', with a digit
CurrencyString(v) ==
    /\ v.k = "str"
    /\ LET body == IF v.s # <<>> /\ Head(v.s) = "$" THEN Tail(v.s) ELSE v.s
       IN /\ \A i \in 1..Len(body) : body[i] \in Digits \cup {",", "."}
          /\ Cardinality({i \in 1..Len(body) : body[i] = "."}) <= 1
          /\ \E i \in 1..Len(body) : body[i] \in Digits

C2_Idempotent == (calls = 2 /\ status = "ok") => Out = first

SameDay(a, b) == a.listing_id = b.listing_id /\ to_datetime(a.date) = to_datetime(b.date)

\* C4 (as claimed): after clean_calendar the output holds at most one record
\* per (listing_id, date) pair, for every input table.
C4_OnePerListingDay ==
    Returned1 =>
        \A i, j \in 1..Len(Out) :
            (Out[i].listing_id = Out[j].listing_id /\ Out[i].date = Out[j].date) => i = j

\* the rows of the input that share listing_id and date are equal in the raw
\* flag and the raw price
KeyDeterminesRow ==
    \A i, j \in 1..Len(input0) :
        SameDay(In(i), In(j)) =>
            In(i).available = In(j).available /\ In(i).price = In(j).price

\* C4 (amended): after clean_calendar the output holds at most one record per
\* (listing_id, date) pair, for every input table in which rows that share
\* listing_id and date do not differ in the raw flag or the raw price.
C4_OnePerListingDayIfKeyed ==
    (Returned1 /\ KeyDeterminesRow) =>
        \A i, j \in 1..Len(Out) :
            (Out[i].listing_id = Out[j].listing_id /\ Out[i].date = Out[j].date) => i = j

C4_Witness ==
    /\ Returned1 /\ KeyDeterminesRow
    /\ Len(input0) = 2 /\ Len(Out) = 1
    /\ In(1).date # In(2).date

\* C5 (as claimed): input rows identical in every field give exactly one
\* output row, and rows that differ in at least one raw field are each kept:
\* the output has one row per distinct raw input row.
C5_OneRowPerRawRow ==
    Returned1 => Len(Out) = Cardinality({In(i) : i \in 1..Len(input0)})

\* a row as drop_duplicates compares it: the date parsed, the rest raw
Parsed(r) == [r EXCEPT !.date = to_datetime(r.date)]

\* a cleaned row that comes from the raw row r
Cleans(r, o) ==
    /\ o.listing_id = r.listing_id
    /\ o.date = to_datetime(r.date)
    /\ (o.available = IntV(1)) = (r.available = StrV(<<"t">>))

\* C5 (amended): input rows identical in every field give exactly one output
\* row, and rows that differ in listing_id, in the parsed date, in the raw flag
\* or in the raw price are each kept: the output has one row per distinct
\* input row with its date parsed.
C5_OneRowPerParsedRow ==
    Returned1 =>
        /\ Len(Out) = Cardinality({Parsed(In(i)) : i \in 1..Len(input0)})
        /\ \A i \in 1..Len(input0) : \E k \in 1..Len(Out) : Cleans(In(i), Out[k])

C5_Witness ==
    /\ Returned1
    /\ Len(input0) = 2 /\ In(1) = In(2)
    /\ Len(Out) = 1

\* the input rows drop_duplicates keeps: those with no equal row before them
Kept == {i \in 1..Len(input0) : \A j \in 1..(i - 1) : Parsed(In(j)) # Parsed(In(i))}
\* the input row the k-th output row comes from
Source(k) == CHOOSE i \in Kept : Cardinality({j \in Kept : j <= i}) = k

\* C6: the output availability of a row is 1 if and only if its raw flag is
\* exactly "t"; every other raw value ("f", "T", empty, missing, any other
\* token) gives 0.
C6_AvailableIffT ==
    Returned1 =>
        /\ Len(Out) = Cardinality(Kept)
        /\ \A k \in 1..Len(Out) :
               /\ Out[k].available \in {IntV(0), IntV(1)}
               /\ (Out[k].available = IntV(1)) = (In(Source(k)).available = StrV(<<"t">>))

C6_Witness ==
    /\ Returned1
    /\ \E k, m \in 1..Len(Out) :
           /\ In(Source(k)).available = StrV(<<"t">>) /\ Out[k].available = IntV(1)
           /\ In(Source(m)).available = StrV(<<"T">>) /\ Out[m].available = IntV(0)

\* the distinct tokens of all rows of the amenities column
Vocabulary == UNION {TokensOf(amenities[i]) : i \in 1..Len(amenities)}
Columns == {amenities_df.columns[j] : j \in 1..Len(amenities_df.columns)}

\* C7 (as claimed): a row whose parsed token list is {A, B} has 1 in column A
\* and in column B and 0 in every other column, whatever the other rows are.
C7_RowRoundTrip ==
    amenities_df.made =>
        \A i \in 1..Len(amenities) :
            LET toks == TokensOf(amenities[i])
            IN (Cardinality(toks) = 2 /\ <<>> \notin toks) =>
                   /\ \A t \in toks :
                          \E j \in 1..Len(amenities_df.columns) :
                              amenities_df.columns[j] = t /\ amenities_df.data[i][j] = 1
                   /\ \A j \in 1..Len(amenities_df.columns) :
                          amenities_df.columns[j] \notin toks => amenities_df.data[i][j] = 0

\* C8 (as claimed): the columns of the output are exactly the vocabulary of
\* observed tokens minus the empty-string token; the dropped column is never
\* a real amenity.
C8_DropsOnlyEmptyToken == amenities_df.made => Columns = Vocabulary \ {<<>>}

\* the first dates and the last dates of the listings of the cleaned table
RowsOf(l) == {i \in 1..Len(Out) : Out[i].listing_id = l}
IsStart(d) ==
    \E i \in 1..Len(Out) :
        Out[i].date = d /\ \A j \in RowsOf(Out[i].listing_id) : d.n <= Out[j].date.n
IsEnd(d) ==
    \E i \in 1..Len(Out) :
        Out[i].date = d /\ \A j \in RowsOf(Out[i].listing_id) : d.n >= Out[j].date.n
Starts == {d \in {Out[i].date : i \in 1..Len(Out)} : IsStart(d)}
Ends == {d \in {Out[i].date : i \in 1..Len(Out)} : IsEnd(d)}
\* the date as the input wrote it
Written(d) == {In(i).date.s : i \in {j \in 1..Len(input0) : to_datetime(In(j).date) = d}}

\* C9: check_date_range reports a common start and end exactly when the
\* per-listing first dates are one value and the per-listing last dates are
\* one value, and reports those two dates as YYYY-MM-DD; otherwise it reports
\* divergent ranges with the full sets of first dates and of last dates.
C9_DateRangeReport ==
    report.kind # "none" =>
        /\ (report.kind = "common") = (\E s \in Starts, e \in Ends : Starts = {s} /\ Ends = {e})
        /\ report.kind = "common" =>
               /\ \A s \in Starts : report.begin \in Written(s)
               /\ \A e \in Ends : report.end \in Written(e)
        /\ report.kind # "common" =>
               /\ report.kind = "divergent"
               /\ report.starts = Starts
               /\ report.ends = Ends

C9_Witness ==
    /\ report.kind = "common"
    /\ report.begin = Jan01 /\ report.end = Jan07
    /\ \E i, j \in 1..Len(Out) : Out[i].listing_id # Out[j].listing_id

\* C10 (as claimed): whenever clean_price returns without raising, every
\* value of the price column is a non-negative integer; a missing price is 0.
C10_NonNegativePrices ==
    (calls >= 1 /\ status = "ok") =>
        \A i \in 1..Len(Out) : Out[i].price.k = "int" /\ Out[i].price.n >= 0

====
